---- MODULE Spec2Model ----
(***************************************************************************)
(* Model of river/tree/_base_tree.py: the DecisionTree base class, its     *)
(* leaf life cycle (_activate_leaf / _deactivate_leaf), the memory         *)
(* estimation (_estimate_model_size) and enforcement (_enforce_size_limit) *)
(* passes.                                                                 *)
(*                                                                         *)
(* The DecisionTree object is the record `self`, one field per attribute   *)
(* (the leading underscore of the Python names is dropped).  The tree is   *)
(* a function from paths (sequences of branch indices, <<>> the root) to   *)
(* nodes; a SplitNode object is identified by its path, which is sound     *)
(* because no operation of this file moves or replaces a SplitNode.        *)
(* Sizes are exact rationals <<numerator, denominator>> (Python floats     *)
(* without rounding).  `last` is a history variable: what the last call    *)
(* was and what it computed.                                               *)
(***************************************************************************)
EXTENDS Integers, Sequences, FiniteSets, TLC

VARIABLES self, last

vars == <<self, last>>

\* ------------------------------------------------------------------ bounds
MaxLeaves == 3      \* trees of Init have at most this many leaves
MaxStats == 1       \* leaf statistics (and so promises) range over 0..MaxStats
MaxLeafSize == 1    \* measured byte size of one leaf: 1..MaxLeafSize
MaxModelSize == 2   \* measured byte size of the whole model: 1..MaxModelSize
MaxBudget == 2      \* _max_byte_size ranges over 1..MaxBudget
MaxCfgDepth == 1    \* max_depth is MaxCfgDepth or unbounded
MaxRange == 2       \* range_val of _hoeffding_bound: -MaxRange..MaxRange
MaxN == 3           \* n of _hoeffding_bound: -MaxN..MaxN

\* math.inf of max_depth (line 60), larger than every depth of the model
Inf == 1000000

\* None of Python where a SplitNode is expected: the parent of a root leaf
\* (no path holds a negative branch index)
None == <<-1>>

\* ------------------------------------------------------------ rationals
RECURSIVE GCD(_, _)
GCD(a, b) == IF b = 0 THEN a ELSE GCD(b, a % b)

Norm(n, d) == IF n = 0 THEN <<0, 1>> ELSE <<n \div GCD(n, d), d \div GCD(n, d)>>

FInt(n) == <<n, 1>>
FAdd(x, y) == Norm(x[1] * y[2] + y[1] * x[2], x[2] * y[2])
FMul(x, y) == Norm(x[1] * y[1], x[2] * y[2])
FDiv(x, y) == Norm(x[1] * y[2], x[2] * y[1])
FGt(x, y) == x[1] * y[2] > y[1] * x[2]

\* ---------------------------------------------------------------- nodes
\* A node: kind "split" (SplitNode), "active" (ActiveLeaf) or "inactive"
\* (InactiveLeaf); stats is the opaque statistics object of a leaf.
SplitNode(depth) == [kind |-> "split", stats |-> 0, depth |-> depth]
Leaf(kind, stats, depth) == [kind |-> kind, stats |-> stats, depth |-> depth]

IsLearningNode(node) == node.kind \in {"active", "inactive"}
IsActiveLeaf(node) == node.kind = "active"
IsInactiveLeaf(node) == node.kind = "inactive"
IsSplitNode(node) == node.kind = "split"

\* LearningNode.calculate_promise: a function of the leaf's statistics
CalculatePromise(node) == node.stats

\* None of Python where a node is expected
NoNode == [kind |-> "none", stats |-> 0, depth |-> 0]

\* The node factory _new_learning_node (abstract in this class): the new
\* leaf is created as a child of `parent`, one level below it (depth 0
\* without a parent), and is seeded with initial_stats.
NewLearningNode(initial_stats, parent, is_active) ==
    Leaf(IF is_active THEN "active" ELSE "inactive", initial_stats,
         IF parent = NoNode THEN 0 ELSE parent.depth + 1)

\* FoundNode(node, parent, parent_branch): parent is the path of the
\* SplitNode that holds the leaf, or None
FoundNode(node, parent, parent_branch) ==
    [node |-> node, parent |-> parent, parent_branch |-> parent_branch]

\* the slot a Found-Node triple names
SlotOf(parent, parent_branch) ==
    IF parent = None THEN <<>> ELSE Append(parent, parent_branch)

\* ------------------------------------------------------ _find_learning_nodes
\* splits are binary: n_children = 2, the branches are 0 and 1
\* mutant: the recursion passes the parent's own branch down instead of i
RECURSIVE FindFrom_WrongBranch(_, _, _, _)
FindFrom_WrongBranch(tree, path, parent, parent_branch) ==
    IF path \notin DOMAIN tree THEN <<>>
    ELSE IF IsLearningNode(tree[path])
         THEN <<FoundNode(tree[path], parent, parent_branch)>>
         ELSE FindFrom_WrongBranch(tree, Append(path, 0), path, 0)
              \o FindFrom_WrongBranch(tree, Append(path, 1), path, parent_branch)

RECURSIVE FindFrom(_, _, _, _)
FindFrom(tree, path, parent, parent_branch) ==
    IF path \notin DOMAIN tree THEN <<>>
    ELSE IF IsLearningNode(tree[path])
         THEN <<FoundNode(tree[path], parent, parent_branch)>>
         ELSE FindFrom(tree, Append(path, 0), path, 0)
              \o FindFrom(tree, Append(path, 1), path, 1)

FindLearningNodes(s) == FindFrom(s.tree_root, <<>>, None, -1)

\* ------------------------------------------------------------ reachability
RECURSIVE Reachable(_, _)
Reachable(tree, path) ==
    IF path \notin DOMAIN tree THEN {}
    ELSE IF IsSplitNode(tree[path])
         THEN {path} \cup Reachable(tree, Append(path, 0))
                     \cup Reachable(tree, Append(path, 1))
         ELSE {path}

Nodes(s) == Reachable(s.tree_root, <<>>)
Leaves(s) == {p \in Nodes(s) : IsLearningNode(s.tree_root[p])}
ActiveLeaves(s) == {p \in Nodes(s) : IsActiveLeaf(s.tree_root[p])}
InactiveLeaves(s) == {p \in Nodes(s) : IsInactiveLeaf(s.tree_root[p])}
Splits(s) == {p \in Nodes(s) : IsSplitNode(s.tree_root[p])}

\* ------------------------------------------------------- _deactivate_leaf
\* mutant: the new leaf is assigned over the parent instead of its child
Splice_ReplacesParent(tree, parent, parent_branch, new_leaf) ==
    IF parent = None
    THEN [p \in {<<>>} |-> new_leaf]
    ELSE [p \in DOMAIN tree |-> IF p = parent THEN new_leaf ELSE tree[p]]

\* set_child(parent_branch, new_leaf) on the SplitNode at path `parent`, or
\* the assignment to _tree_root when parent is None
Splice(tree, parent, parent_branch, new_leaf) ==
    IF parent = None
    THEN [p \in {<<>>} |-> new_leaf]
    ELSE [p \in DOMAIN tree \cup {Append(parent, parent_branch)} |->
             IF p = Append(parent, parent_branch) THEN new_leaf ELSE tree[p]]

\* mutant: _n_inactive_leaves is not incremented
DeactivateLeaf_KeepsInactiveCount(s, to_deactivate, parent, parent_branch) ==
    LET made == NewLearningNode(to_deactivate.stats, to_deactivate, FALSE)
        new_leaf == [made EXCEPT !.depth = made.depth - 1]
    IN [s EXCEPT !.tree_root = Splice(s.tree_root, parent, parent_branch, new_leaf),
                 !.n_active_leaves = s.n_active_leaves - 1]

\* mutant: the new leaf is created without the statistics of the old one
DeactivateLeaf_DropsStats(s, to_deactivate, parent, parent_branch) ==
    LET made == NewLearningNode(0, to_deactivate, FALSE)
        new_leaf == [made EXCEPT !.depth = made.depth - 1]
    IN [s EXCEPT !.tree_root = Splice(s.tree_root, parent, parent_branch, new_leaf),
                 !.n_active_leaves = s.n_active_leaves - 1,
                 !.n_inactive_leaves = s.n_inactive_leaves + 1]

DeactivateLeaf(s, to_deactivate, parent, parent_branch) ==
    LET made == NewLearningNode(to_deactivate.stats, to_deactivate, FALSE)
        new_leaf == [made EXCEPT !.depth = made.depth - 1]
    IN [s EXCEPT !.tree_root = Splice(s.tree_root, parent, parent_branch, new_leaf),
                 !.n_active_leaves = s.n_active_leaves - 1,
                 !.n_inactive_leaves = s.n_inactive_leaves + 1]

\* mutant: the depth of the new leaf is not corrected
ActivateLeaf_NoDepthFix(s, to_activate, parent, parent_branch) ==
    LET new_leaf == NewLearningNode(to_activate.stats, to_activate, TRUE)
    IN [s EXCEPT !.tree_root = Splice(s.tree_root, parent, parent_branch, new_leaf),
                 !.n_active_leaves = s.n_active_leaves + 1,
                 !.n_inactive_leaves = s.n_inactive_leaves - 1]

\* --------------------------------------------------------- _activate_leaf
ActivateLeaf(s, to_activate, parent, parent_branch) ==
    LET made == NewLearningNode(to_activate.stats, to_activate, TRUE)
        new_leaf == [made EXCEPT !.depth = made.depth - 1]
    IN [s EXCEPT !.tree_root = Splice(s.tree_root, parent, parent_branch, new_leaf),
                 !.n_active_leaves = s.n_active_leaves + 1,
                 !.n_inactive_leaves = s.n_inactive_leaves - 1]

\* ------------------------------------------------- _deactivate_all_leaves
\* isinstance(cur_node, ActiveLeaf) of line 277 is asked of the FoundNode
\* triple itself, which is no node: a FoundNode is never an ActiveLeaf.
FoundNodeIsActiveLeaf(cur_node) == FALSE

RECURSIVE DeactivateAllFrom(_, _, _)
DeactivateAllFrom(s, learning_nodes, i) ==
    IF i > Len(learning_nodes) THEN s
    ELSE LET cur_node == learning_nodes[i]
         IN DeactivateAllFrom(
                IF FoundNodeIsActiveLeaf(cur_node)
                THEN DeactivateLeaf(s, cur_node.node, cur_node.parent,
                                    cur_node.parent_branch)
                ELSE s,
                learning_nodes, i + 1)

DeactivateAllLeaves(s) == DeactivateAllFrom(s, FindLearningNodes(s), 1)

\* ----------------------------------------------------- _enforce_size_limit
\* mutant: the overhead fraction is not applied
TreeSize_WithoutOverhead(s) ==
    FAdd(s.active_leaf_size_estimate,
         FMul(FInt(s.n_inactive_leaves), s.inactive_leaf_size_estimate))

\* lines 218-220
TreeSize(s) ==
    FMul(FAdd(s.active_leaf_size_estimate,
              FMul(FInt(s.n_inactive_leaves), s.inactive_leaf_size_estimate)),
         s.size_estimate_overhead_fraction)

\* lines 221-224: the early return that stops growth
StopsGrowth(s) ==
    /\ s.n_inactive_leaves > 0 \/ FGt(TreeSize(s), FInt(s.max_byte_size))
    /\ s.stop_mem_management

\* mutant: an unstable insertion (x goes before the elements of equal key)
RECURSIVE Insert_Unstable(_, _)
Insert_Unstable(sorted, x) ==
    IF sorted = <<>> THEN <<x>>
    ELSE LET n == Len(sorted)
         IN IF CalculatePromise(sorted[n].node) < CalculatePromise(x.node)
            THEN Append(sorted, x)
            ELSE Append(Insert_Unstable(SubSeq(sorted, 1, n - 1), x), sorted[n])

\* list.sort(key=calculate_promise): a stable ascending sort; Insert places
\* x after every element whose key is not larger.
RECURSIVE Insert(_, _)
Insert(sorted, x) ==
    IF sorted = <<>> THEN <<x>>
    ELSE LET n == Len(sorted)
         IN IF CalculatePromise(sorted[n].node) <= CalculatePromise(x.node)
            THEN Append(sorted, x)
            ELSE Append(Insert(SubSeq(sorted, 1, n - 1), x), sorted[n])

RECURSIVE SortByPromise(_)
SortByPromise(nodes) ==
    IF nodes = <<>> THEN <<>>
    ELSE Insert(SortByPromise(SubSeq(nodes, 1, Len(nodes) - 1)), nodes[Len(nodes)])

\* mutant: the overhead fraction is not applied to the projected size
Projected_WithoutOverhead(s, n_nodes, max_active) ==
    FAdd(FMul(FInt(max_active), s.active_leaf_size_estimate),
         FMul(FInt(n_nodes - max_active), s.inactive_leaf_size_estimate))

\* lines 230-232: the projected size with max_active leaves active
Projected(s, n_nodes, max_active) ==
    FMul(FAdd(FMul(FInt(max_active), s.active_leaf_size_estimate),
              FMul(FInt(n_nodes - max_active), s.inactive_leaf_size_estimate)),
         s.size_estimate_overhead_fraction)

\* mutant: the loop breaks without max_active -= 1
RECURSIVE ScanMaxActive_NoBackOff(_, _, _)
ScanMaxActive_NoBackOff(s, n_nodes, max_active) ==
    IF max_active < n_nodes
    THEN IF FGt(Projected(s, n_nodes, max_active + 1), FInt(s.max_byte_size))
         THEN max_active + 1
         ELSE ScanMaxActive_NoBackOff(s, n_nodes, max_active + 1)
    ELSE max_active

\* lines 227-234: the while loop, entered with max_active
RECURSIVE ScanMaxActive(_, _, _)
ScanMaxActive(s, n_nodes, max_active) ==
    IF max_active < n_nodes
    THEN IF FGt(Projected(s, n_nodes, max_active + 1), FInt(s.max_byte_size))
         THEN max_active
         ELSE ScanMaxActive(s, n_nodes, max_active + 1)
    ELSE max_active

\* mutant: the loop runs over range(cutoff - 1)
RECURSIVE DeactivateBelow_StopsEarly(_, _, _, _)
DeactivateBelow_StopsEarly(s, learning_nodes, i, cutoff) ==
    IF i > cutoff - 1 THEN s
    ELSE LET fn == learning_nodes[i]
         IN DeactivateBelow_StopsEarly(
                IF IsActiveLeaf(fn.node)
                THEN DeactivateLeaf(s, fn.node, fn.parent, fn.parent_branch)
                ELSE s,
                learning_nodes, i + 1, cutoff)

\* lines 236-240: for i in range(cutoff) (indices from 1 here)
RECURSIVE DeactivateBelow(_, _, _, _)
DeactivateBelow(s, learning_nodes, i, cutoff) ==
    IF i > cutoff THEN s
    ELSE LET fn == learning_nodes[i]
         IN DeactivateBelow(
                IF IsActiveLeaf(fn.node)
                THEN DeactivateLeaf(s, fn.node, fn.parent, fn.parent_branch)
                ELSE s,
                learning_nodes, i + 1, cutoff)

\* mutant: the depth of the leaf is not compared with max_depth
MayActivate_IgnoresDepth(s, node) == IsInactiveLeaf(node)

\* lines 242-243: the condition of the second loop
MayActivate(s, node) == IsInactiveLeaf(node) /\ node.depth < s.max_depth

\* mutant: every leaf from the cutoff on is activated, active or not
RECURSIVE ActivateFrom_Unchecked(_, _, _)
ActivateFrom_Unchecked(s, learning_nodes, i) ==
    IF i > Len(learning_nodes) THEN s
    ELSE LET fn == learning_nodes[i]
         IN ActivateFrom_Unchecked(
                ActivateLeaf(s, fn.node, fn.parent, fn.parent_branch),
                learning_nodes, i + 1)

\* lines 241-245: for i in range(cutoff, len(learning_nodes))
RECURSIVE ActivateFrom(_, _, _)
ActivateFrom(s, learning_nodes, i) ==
    IF i > Len(learning_nodes) THEN s
    ELSE LET fn == learning_nodes[i]
         IN ActivateFrom(
                IF MayActivate(s, fn.node)
                THEN ActivateLeaf(s, fn.node, fn.parent, fn.parent_branch)
                ELSE s,
                learning_nodes, i + 1)

\* what the ranking pass (lines 225-245) computes before it mutates
Ranking(s) ==
    LET learning_nodes == SortByPromise(FindLearningNodes(s))
        max_active == ScanMaxActive(s, Len(learning_nodes), 0)
    IN [learning_nodes |-> learning_nodes,
        max_active |-> max_active,
        cutoff |-> Len(learning_nodes) - max_active]

EnforceSizeLimit(s) ==
    IF StopsGrowth(s)
    THEN [s EXCEPT !.growth_allowed = FALSE]
    ELSE LET r == Ranking(s)
         IN ActivateFrom(DeactivateBelow(s, r.learning_nodes, 1, r.cutoff),
                         r.learning_nodes, r.cutoff + 1)

\* ---------------------------------------------------- _estimate_model_size
\* size_of[p] is calculate_object_size of the leaf in slot p, and
\* actual_model_size is calculate_object_size(self).
RECURSIVE TotalSize(_, _, _, _)
TotalSize(learning_nodes, size_of, active, i) ==
    IF i > Len(learning_nodes) THEN 0
    ELSE LET found_node == learning_nodes[i]
             rest == TotalSize(learning_nodes, size_of, active, i + 1)
         IN IF ~IsLearningNode(found_node.node) THEN rest
            ELSE IF IsActiveLeaf(found_node.node) = active
                 THEN size_of[SlotOf(found_node.parent, found_node.parent_branch)] + rest
                 ELSE rest

\* lines 266-268
EstimatedModelSize(s) ==
    FAdd(FMul(FInt(s.n_active_leaves), s.active_leaf_size_estimate),
         FMul(FInt(s.n_inactive_leaves), s.inactive_leaf_size_estimate))

\* line 270
OverBudget(s, actual_model_size) == actual_model_size > s.max_byte_size

\* The result is [self, raised, enforced]: the object as the call leaves it,
\* whether the call raised ZeroDivisionError (a division by a zero counter or
\* by a zero estimate), and whether it reached _enforce_size_limit.
EstimateModelSize(s, size_of, actual_model_size) ==
    LET learning_nodes == FindLearningNodes(s)
        total_active_size == TotalSize(learning_nodes, size_of, TRUE, 1)
        total_inactive_size == TotalSize(learning_nodes, size_of, FALSE, 1)
        raise(x) == [self |-> x, raised |-> TRUE, enforced |-> FALSE]
    IN IF total_active_size > 0 /\ s.n_active_leaves = 0 THEN raise(s)
       ELSE
       LET s1 == IF total_active_size > 0
                 THEN [s EXCEPT !.active_leaf_size_estimate =
                                    Norm(total_active_size, s.n_active_leaves)]
                 ELSE s
       IN IF total_inactive_size > 0 /\ s1.n_inactive_leaves = 0 THEN raise(s1)
          ELSE
          LET s2 == IF total_inactive_size > 0
                    THEN [s1 EXCEPT !.inactive_leaf_size_estimate =
                                        Norm(total_inactive_size, s1.n_inactive_leaves)]
                    ELSE s1
              estimated_model_size == EstimatedModelSize(s2)
          IN IF estimated_model_size[1] = 0 THEN raise(s2)
             ELSE
             LET s3 == [s2 EXCEPT !.size_estimate_overhead_fraction =
                                      FDiv(FInt(actual_model_size), estimated_model_size)]
             IN IF OverBudget(s3, actual_model_size)
                THEN [self |-> EnforceSizeLimit(s3), raised |-> FALSE, enforced |-> TRUE]
                ELSE [self |-> s3, raised |-> FALSE, enforced |-> FALSE]

\* the object as _estimate_model_size hands it to _enforce_size_limit
BeforeEnforce(s, size_of, actual_model_size) ==
    LET total_active_size == TotalSize(FindLearningNodes(s), size_of, TRUE, 1)
        total_inactive_size == TotalSize(FindLearningNodes(s), size_of, FALSE, 1)
        s1 == IF total_active_size > 0
              THEN [s EXCEPT !.active_leaf_size_estimate =
                                 Norm(total_active_size, s.n_active_leaves)]
              ELSE s
        s2 == IF total_inactive_size > 0
              THEN [s1 EXCEPT !.inactive_leaf_size_estimate =
                                  Norm(total_inactive_size, s1.n_inactive_leaves)]
              ELSE s1
    IN [s2 EXCEPT !.size_estimate_overhead_fraction =
                      FDiv(FInt(actual_model_size), EstimatedModelSize(s2))]

\* --------------------------------------------- depth, model_measurements
\* Node.subtree_depth (river/tree/_nodes): 0 for a leaf, one more than the
\* deepest child for a SplitNode
RECURSIVE SubtreeDepth(_, _)
SubtreeDepth(tree, path) ==
    IF path \notin DOMAIN tree \/ IsLearningNode(tree[path]) THEN 0
    ELSE LET left == SubtreeDepth(tree, Append(path, 0))
             right == SubtreeDepth(tree, Append(path, 1))
         IN 1 + (IF left > right THEN left ELSE right)

\* the property depth: isinstance(self._tree_root, Node) fails for None
Depth(s) == IF s.tree_root /= <<>> THEN SubtreeDepth(s.tree_root, <<>>) ELSE 0

\* mutant: the leaf count leaves out the inactive leaves
ModelMeasurements_ActiveOnly(s) ==
    [tree_size_nodes |-> s.n_decision_nodes + s.n_active_leaves + s.n_inactive_leaves,
     tree_size_leaves |-> s.n_active_leaves,
     active_learning_nodes |-> s.n_active_leaves,
     tree_depth |-> Depth(s),
     active_leaf_byte_size_estimate |-> s.active_leaf_size_estimate,
     inactive_leaf_byte_size_estimate |-> s.inactive_leaf_size_estimate,
     byte_size_estimate_overhead |-> s.size_estimate_overhead_fraction]

\* the dictionary returned by the property model_measurements, one field
\* per key
ModelMeasurements(s) ==
    [tree_size_nodes |-> s.n_decision_nodes + s.n_active_leaves + s.n_inactive_leaves,
     tree_size_leaves |-> s.n_active_leaves + s.n_inactive_leaves,
     active_learning_nodes |-> s.n_active_leaves,
     tree_depth |-> Depth(s),
     active_leaf_byte_size_estimate |-> s.active_leaf_size_estimate,
     inactive_leaf_byte_size_estimate |-> s.inactive_leaf_size_estimate,
     byte_size_estimate_overhead |-> s.size_estimate_overhead_fraction]

\* ------------------------------------------------------------------- Init
\* the trees with exactly n leaves below `path`, every leaf's stored depth
\* its number of SplitNode ancestors
RECURSIVE TreesAt(_, _)
TreesAt(path, n) ==
    IF n = 1
    THEN {[p \in {path} |-> Leaf(k, st, Len(path))] :
             k \in {"active", "inactive"}, st \in 0..MaxStats}
    ELSE UNION {{[p \in {path} |-> SplitNode(Len(path))] @@ l @@ r :
                    l \in TreesAt(Append(path, 0), i),
                    r \in TreesAt(Append(path, 1), n - i)} : i \in 1..(n - 1)}

\* <<>> is the absent root (_tree_root = None)
Trees == {<<>>} \cup UNION {TreesAt(<<>>, n) : n \in 1..MaxLeaves}

\* __init__ (lines 57-77) followed by a growth that built `tree`
NewTree(tree, max_depth, max_byte_size, stop_mem_management) ==
    LET s == [tree_root |-> tree] IN
    [max_depth |-> max_depth,
     max_byte_size |-> max_byte_size,
     stop_mem_management |-> stop_mem_management,
     tree_root |-> tree,
     n_decision_nodes |-> Cardinality(Splits(s)),
     n_active_leaves |-> Cardinality(ActiveLeaves(s)),
     n_inactive_leaves |-> Cardinality(InactiveLeaves(s)),
     inactive_leaf_size_estimate |-> FInt(0),
     active_leaf_size_estimate |-> FInt(0),
     size_estimate_overhead_fraction |-> FInt(1),
     growth_allowed |-> TRUE]

\* what `last` records: the call, whether it raised, whether it reached
\* _enforce_size_limit, whether that ran the ranking pass (lines 225-245), the
\* max_active the pass computed, and _n_active_leaves as the call found it
\* and what the call returned (<<>> for the calls that return nothing)
Call(op, raised, enforced, ranked, max_active, active_before) ==
    [op |-> op, raised |-> raised, enforced |-> enforced, ranked |-> ranked,
     max_active |-> max_active, active_before |-> active_before,
     result |-> <<>>]

\* a call that only reads the object and returns `result`
Returned(op, s, result) ==
    [Call(op, FALSE, FALSE, FALSE, 0, s.n_active_leaves) EXCEPT !.result = result]

Init ==
    /\ \E tree \in Trees, max_depth \in {MaxCfgDepth, Inf},
          max_byte_size \in 1..MaxBudget, stop_mem_management \in BOOLEAN :
          self = NewTree(tree, max_depth, max_byte_size, stop_mem_management)
    /\ last = Call("init", FALSE, FALSE, FALSE, 0, 0)

\* the measurements calculate_object_size can return for the leaves
Measurements(s) == [Leaves(s) -> 1..MaxLeafSize]

\* ---------------------------------------------------------------- actions
CallEnforceSizeLimit ==
    /\ self' = EnforceSizeLimit(self)
    /\ last' = IF StopsGrowth(self)
               THEN Call("enforce_size_limit", FALSE, TRUE, FALSE, 0,
                         self.n_active_leaves)
               ELSE Call("enforce_size_limit", FALSE, TRUE, TRUE,
                         Ranking(self).max_active, self.n_active_leaves)

CallEstimateModelSize ==
    \E size_of \in Measurements(self), actual_model_size \in 1..MaxModelSize :
        LET out == EstimateModelSize(self, size_of, actual_model_size)
            s3 == BeforeEnforce(self, size_of, actual_model_size)
        IN /\ self' = out.self
           /\ last' = IF out.enforced /\ ~StopsGrowth(s3)
                      THEN Call("estimate_model_size", FALSE, TRUE, TRUE,
                                Ranking(s3).max_active, self.n_active_leaves)
                      ELSE Call("estimate_model_size", out.raised, out.enforced,
                                FALSE, 0, self.n_active_leaves)

CallDeactivateAllLeaves ==
    /\ self' = DeactivateAllLeaves(self)
    /\ last' = Call("deactivate_all_leaves", FALSE, FALSE, FALSE, 0,
                    self.n_active_leaves)

\* _deactivate_leaf on the Found-Node triple of an active leaf
CallDeactivateLeaf ==
    \E i \in 1..Len(FindLearningNodes(self)) :
        LET fn == FindLearningNodes(self)[i]
        IN /\ IsActiveLeaf(fn.node)
           /\ self' = DeactivateLeaf(self, fn.node, fn.parent, fn.parent_branch)
           /\ last' = Call("deactivate_leaf", FALSE, FALSE, FALSE, 0,
                           self.n_active_leaves)

\* _activate_leaf on the Found-Node triple of an inactive leaf
CallActivateLeaf ==
    \E i \in 1..Len(FindLearningNodes(self)) :
        LET fn == FindLearningNodes(self)[i]
        IN /\ IsInactiveLeaf(fn.node)
           /\ self' = ActivateLeaf(self, fn.node, fn.parent, fn.parent_branch)
           /\ last' = Call("activate_leaf", FALSE, FALSE, FALSE, 0,
                           self.n_active_leaves)

\* _find_learning_nodes: assigns no attribute and no node
CallFindLearningNodes ==
    /\ self' = self
    /\ last' = Returned("find_learning_nodes", self, FindLearningNodes(self))

\* model_measurements (which reads depth): assigns no attribute
CallModelMeasurements ==
    /\ self' = self
    /\ last' = Returned("model_measurements", self, ModelMeasurements(self))

Next ==
    \/ CallFindLearningNodes
    \/ CallModelMeasurements
    \/ CallEnforceSizeLimit
    \/ CallEstimateModelSize
    \/ CallDeactivateAllLeaves
    \/ CallDeactivateLeaf
    \/ CallActivateLeaf

Spec == Init /\ [][Next]_vars

\* -------------------------------------------------------- _hoeffding_bound
\* The static method is a pure function of its three arguments.  Its
\* floating-point steps are followed in the order Python evaluates them,
\* with the exception each step can raise.  math.log and math.sqrt are
\* kept symbolic: a returned value is sqrt(scale * |ln(log_of)|), with
\* scale = range_val^2 / (2 |n|) an exact rational and log_of = 1 /
\* confidence.  Only two facts about them are used: log is increasing with
\* log(1) = 0, and sqrt is increasing on the non-negative numbers with
\* sqrt(0) = 0 (math.sqrt(-0.0) returns -0.0 and does not raise).
Sgn(x) == IF x > 0 THEN 1 ELSE IF x < 0 THEN -1 ELSE 0
Abs(x) == IF x < 0 THEN -x ELSE x

\* confidences as fractions <<numerator, denominator>>, denominator > 0:
\* negative, zero, inside (0, 1), one, above one
Confidences == {<<-1, 1>>, <<0, 1>>, <<1, 4>>, <<1, 2>>, <<1, 1>>, <<2, 1>>}
Ranges == -MaxRange..MaxRange
Samples == -MaxN..MaxN

Raises(exception) == [raised |-> exception, scale |-> <<0, 1>>, log_of |-> <<1, 1>>]
Returns(scale, log_of) == [raised |-> "", scale |-> scale, log_of |-> log_of]

\* sign of math.log(x) for a fraction x > 0
LogSign(x) == Sgn(x[1] - x[2])

\* mutant: the quotient is taken with n in the numerator
HoeffdingBound_TimesN(range_val, confidence, n) ==
    IF confidence[1] = 0 THEN Raises("ZeroDivisionError")
    ELSE IF confidence[1] < 0 THEN Raises("ValueError")
    ELSE IF n = 0 THEN Raises("ZeroDivisionError")
    ELSE LET log_of == <<confidence[2], confidence[1]>>
         IN IF Sgn(range_val * range_val) * LogSign(log_of) * Sgn(n) < 0
            THEN Raises("ValueError")
            ELSE Returns(Norm(range_val * range_val * Abs(n), 2), log_of)

\* math.sqrt((range_val * range_val * math.log(1. / confidence)) / (2. * n))
HoeffdingBound(range_val, confidence, n) ==
    IF confidence[1] = 0 THEN Raises("ZeroDivisionError")    \* 1. / confidence
    ELSE IF confidence[1] < 0 THEN Raises("ValueError")      \* math.log(x), x < 0
    ELSE IF n = 0 THEN Raises("ZeroDivisionError")           \* ... / (2. * n)
    ELSE LET log_of == <<confidence[2], confidence[1]>>
         IN IF Sgn(range_val * range_val) * LogSign(log_of) * Sgn(n) < 0
            THEN Raises("ValueError")                        \* math.sqrt(x), x < 0
            ELSE Returns(Norm(range_val * range_val, 2 * Abs(n)), log_of)

\* order of two returned values with the same log_of /= 1
HLess(a, b) == FGt(b.scale, a.scale)
HLeq(a, b) == ~FGt(a.scale, b.scale)
\* a returned value is 0 exactly when scale = 0 or ln(log_of) = 0
HPositive(a) == a.scale[1] /= 0 /\ LogSign(a.log_of) /= 0

\* the object as the constructor leaves it; the static method does not use it
InitHoeffding ==
    /\ self = NewTree(<<>>, Inf, 1, FALSE)
    /\ last = Call("init", FALSE, FALSE, FALSE, 0, 0)

CallHoeffdingBound ==
    \E range_val \in Ranges, confidence \in Confidences, n \in Samples :
        /\ self' = self
        /\ last' = Returned("hoeffding_bound", self,
                            [range_val |-> range_val, confidence |-> confidence,
                             n |-> n,
                             out |-> HoeffdingBound(range_val, confidence, n)])

NextHoeffding == CallHoeffdingBound

SpecHoeffding == InitHoeffding /\ [][NextHoeffding]_vars

\* ----------------------------------------------------------------- claims
\* the counters agree with the tree
Consistent(s) ==
    /\ s.n_decision_nodes = Cardinality(Splits(s))
    /\ s.n_active_leaves = Cardinality(ActiveLeaves(s))
    /\ s.n_inactive_leaves = Cardinality(InactiveLeaves(s))

\* every leaf's mode, the two leaf counters and _growth_allowed agree
SameModesCountersGrowth(a, b) ==
    /\ DOMAIN a.tree_root = DOMAIN b.tree_root
    /\ \A p \in DOMAIN a.tree_root : a.tree_root[p].kind = b.tree_root[p].kind
    /\ a.n_active_leaves = b.n_active_leaves
    /\ a.n_inactive_leaves = b.n_inactive_leaves
    /\ a.growth_allowed = b.growth_allowed

\* C1: over every step (every _activate_leaf / _deactivate_leaf transition,
\* also those an enforcement pass issues) _n_active_leaves +
\* _n_inactive_leaves keeps its value, equals the number of leaves reachable
\* from the root, and neither counter is negative.
C1_LeafCountConserved ==
    [][/\ self'.n_active_leaves + self'.n_inactive_leaves
            = self.n_active_leaves + self.n_inactive_leaves
       /\ self'.n_active_leaves + self'.n_inactive_leaves = Cardinality(Leaves(self'))
       /\ self'.n_active_leaves >= 0
       /\ self'.n_inactive_leaves >= 0]_vars

C1_Witness ==
    /\ last.op = "enforce_size_limit"
    /\ last.ranked
    /\ last.active_before = 3
    /\ self.n_active_leaves = 1
    /\ self.n_inactive_leaves = 2

\* C2: after a call of _enforce_size_limit with stop_mem_management = false
\* the number of active leaves reachable from the root is at most the
\* max_active the call's scan computed.
C2_ActiveWithinMaxActive ==
    (last.enforced /\ ~self.stop_mem_management) =>
        /\ last.ranked
        /\ Cardinality(ActiveLeaves(self)) <= last.max_active

C2_Witness ==
    /\ last.op = "enforce_size_limit"
    /\ ~self.stop_mem_management
    /\ last.active_before = 3
    /\ last.max_active = 1
    /\ Cardinality(ActiveLeaves(self)) = 1

\* C3: a second _enforce_size_limit right after a first changes nothing:
\* every leaf's mode, both leaf counters and _growth_allowed stay as the
\* first call left them, for every value of stop_mem_management.
C3_SecondEnforceChangesNothing ==
    last.op = "enforce_size_limit" =>
        SameModesCountersGrowth(EnforceSizeLimit(self), self)

\* C4: with stop_mem_management = true, a call of _enforce_size_limit made
\* when an inactive leaf exists or (n_active_leaves x active estimate +
\* n_inactive_leaves x inactive estimate) x overhead_fraction exceeds the
\* budget sets _growth_allowed to false and changes no leaf and no counter.
C4_StopOnlyStopsGrowth ==
    (/\ self.stop_mem_management
     /\ \/ self.n_inactive_leaves > 0
        \/ FGt(FMul(EstimatedModelSize(self), self.size_estimate_overhead_fraction),
               FInt(self.max_byte_size)))
    => LET out == EnforceSizeLimit(self)
       IN /\ out.growth_allowed = FALSE
          /\ out.tree_root = self.tree_root
          /\ out.n_active_leaves = self.n_active_leaves
          /\ out.n_inactive_leaves = self.n_inactive_leaves

\* the tree is one active root leaf
SingleActiveRoot(s) ==
    /\ DOMAIN s.tree_root = {<<>>}
    /\ IsActiveLeaf(s.tree_root[<<>>])
    /\ s.n_active_leaves = 1
    /\ s.n_inactive_leaves = 0

\* C5: on a tree that is a single active root leaf, with stop_mem_management
\* = true, a call of _estimate_model_size that measures a whole-model size
\* above the budget ends with _growth_allowed = false, the root still an
\* active leaf, _n_active_leaves = 1 and _n_inactive_leaves = 0.
C5_SingleRootStopsGrowth ==
    (SingleActiveRoot(self) /\ self.stop_mem_management) =>
        \A size_of \in Measurements(self), actual_model_size \in 1..MaxModelSize :
            actual_model_size > self.max_byte_size =>
                LET out == EstimateModelSize(self, size_of, actual_model_size)
                IN /\ ~out.raised
                   /\ out.enforced
                   /\ out.self.growth_allowed = FALSE
                   /\ SingleActiveRoot(out.self)

C5_Witness ==
    /\ last.op = "estimate_model_size"
    /\ last.enforced
    /\ last.active_before = 1
    /\ self.stop_mem_management
    /\ SingleActiveRoot(self)
    /\ self.growth_allowed = FALSE

\* p comes before q in the traversal of __find_learning_nodes
PathBefore(p, q) ==
    \E i \in 1..Len(p) :
        /\ i <= Len(q)
        /\ p[i] < q[i]
        /\ \A j \in 1..(i - 1) : p[j] = q[j]

\* leaf p is less promising than leaf q, ties resolved by traversal order
RankedBelow(s, p, q) ==
    \/ CalculatePromise(s.tree_root[p]) < CalculatePromise(s.tree_root[q])
    \/ /\ CalculatePromise(s.tree_root[p]) = CalculatePromise(s.tree_root[q])
       /\ PathBefore(p, q)

\* the number of leaves ranked below p
RankOf(s, p) == Cardinality({q \in Leaves(s) : RankedBelow(s, q, p)})

\* C6: when the ranking pass runs on L leaves and its scan yields max_active
\* = k, every leaf ranked below the cutoff L - k is inactive afterwards and
\* every leaf at or above it whose depth is below max_depth is active; if
\* all L leaves were active, exactly the k most promising leaves (ties by
\* traversal order) are active afterwards, the other L - k are inactive, and
\* the leaf counters sum to L.
C6_RankingPass ==
    ~StopsGrowth(self) =>
        LET out == EnforceSizeLimit(self)
            L == Cardinality(Leaves(self))
            k == Ranking(self).max_active
            top == {p \in Leaves(self) : RankOf(self, p) >= L - k}
        IN /\ \A p \in Leaves(self) \ top : IsInactiveLeaf(out.tree_root[p])
           /\ \A p \in top :
                  self.tree_root[p].depth < self.max_depth
                      => IsActiveLeaf(out.tree_root[p])
           /\ ActiveLeaves(self) = Leaves(self) =>
                  /\ ActiveLeaves(out) = top
                  /\ Cardinality(ActiveLeaves(out)) = k
                  /\ InactiveLeaves(out) = Leaves(self) \ top
                  /\ Cardinality(InactiveLeaves(out)) = L - k
                  /\ out.n_active_leaves = k
                  /\ out.n_active_leaves + out.n_inactive_leaves = L

C6_Witness ==
    /\ last.op = "enforce_size_limit"
    /\ last.ranked
    /\ last.active_before = 3
    /\ Cardinality(Leaves(self)) = 3
    /\ last.max_active = 1
    /\ Cardinality(ActiveLeaves(self)) = 1
    /\ \E p \in ActiveLeaves(self), q \in InactiveLeaves(self) :
           /\ CalculatePromise(self.tree_root[p]) = CalculatePromise(self.tree_root[q])
           /\ PathBefore(q, p)
    /\ \E p \in ActiveLeaves(self), q \in InactiveLeaves(self) :
           CalculatePromise(self.tree_root[p]) > CalculatePromise(self.tree_root[q])

\* C7: _enforce_size_limit leaves inactive every inactive leaf whose depth
\* is at least max_depth, whatever its rank and the budget.
C7_NoReactivationAtMaxDepth ==
    \A p \in InactiveLeaves(self) :
        self.tree_root[p].depth >= self.max_depth
            => IsInactiveLeaf(EnforceSizeLimit(self).tree_root[p])

C7_Witness ==
    /\ last.op = "enforce_size_limit"
    /\ last.ranked
    /\ last.max_active = Cardinality(Leaves(self))
    /\ \E p \in InactiveLeaves(self) : self.tree_root[p].depth >= self.max_depth
    /\ \E p \in ActiveLeaves(self) : TRUE

\* C8: every leaf reachable from the root, replaced or not, stores as depth
\* its number of SplitNode ancestors (the length of its path).
C8_DepthIsAncestorCount ==
    \A p \in Leaves(self) : self.tree_root[p].depth = Len(p)

C8_Witness ==
    /\ last.op = "activate_leaf"
    /\ \E p \in ActiveLeaves(self) : Len(p) = 2
    /\ \E p \in InactiveLeaves(self) : Len(p) = 1

\* C9: after _deactivate_all_leaves no active leaf is reachable from the
\* root, _n_active_leaves = 0 and _n_inactive_leaves is the number of leaves.
C9_AllLeavesDeactivated ==
    last.op = "deactivate_all_leaves" =>
        /\ ActiveLeaves(self) = {}
        /\ self.n_active_leaves = 0
        /\ self.n_inactive_leaves = Cardinality(Leaves(self))

\* C10: after every enforcement pass, reached directly or through
\* _estimate_model_size, the three counters agree with the tree:
\* _n_decision_nodes + _n_active_leaves + _n_inactive_leaves is the number
\* of reachable nodes and each leaf counter counts the leaves of its mode.
C10_CountersMatchTree ==
    last.enforced =>
        /\ self.n_decision_nodes + self.n_active_leaves + self.n_inactive_leaves
               = Cardinality(Nodes(self))
        /\ self.n_active_leaves = Cardinality(ActiveLeaves(self))
        /\ self.n_inactive_leaves = Cardinality(InactiveLeaves(self))

C10_Witness ==
    /\ last.op = "estimate_model_size"
    /\ last.enforced
    /\ last.ranked
    /\ self.n_decision_nodes = 2
    /\ self.n_active_leaves < last.active_before

\* C11: _find_learning_nodes returns one Found-Node triple for every leaf
\* reachable from the root and for nothing else, each once; the triple's
\* parent is the SplitNode holding the leaf and parent_branch the index of
\* the leaf among its children; a root leaf comes with parent None and
\* branch -1; the list is empty when the root is absent; the call changes
\* nothing of the object.
C11_FindLearningNodes ==
    /\ [](last.op = "find_learning_nodes" =>
            LET found == last.result
            IN /\ Len(found) = Cardinality(Leaves(self))
               /\ {SlotOf(found[i].parent, found[i].parent_branch) :
                       i \in 1..Len(found)} = Leaves(self)
               /\ \A i \in 1..Len(found) :
                      IF found[i].parent = None
                      THEN /\ found[i].parent_branch = -1
                           /\ found[i].node = self.tree_root[<<>>]
                      ELSE /\ found[i].parent \in Splits(self)
                           /\ found[i].parent_branch \in {0, 1}
                           /\ found[i].node =
                                  self.tree_root[Append(found[i].parent,
                                                        found[i].parent_branch)]
               /\ \A i \in 1..Len(found) : IsLearningNode(found[i].node)
               /\ self.tree_root = <<>> => found = <<>>)
    /\ [][last'.op = "find_learning_nodes" => self' = self]_vars

C11_Witness ==
    /\ last.op = "find_learning_nodes"
    /\ Len(last.result) = 3
    /\ \E i \in 1..3 : last.result[i].parent = <<1>> /\ last.result[i].parent_branch = 1
    /\ \E i \in 1..3 : IsInactiveLeaf(last.result[i].node)

C11_WitnessRootLeaf ==
    /\ last.op = "find_learning_nodes"
    /\ Len(last.result) = 1
    /\ last.result[1].parent = None

\* the arguments the Hoeffding bound is defined for
ValidConfidence(confidence) == confidence[1] > 0 /\ confidence[1] < confidence[2]

\* C12: every call of _hoeffding_bound with n <= 0 or with a confidence
\* that is not strictly between 0 and 1 fails and returns no value.
C12_HoeffdingRejectsInvalid ==
    last.op = "hoeffding_bound" =>
        LET call == last.result
        IN (call.n <= 0 \/ ~ValidConfidence(call.confidence)) =>
               call.out.raised /= ""

\* C13 as stated: for confidence in (0, 1), n > 0 and a range value
\* range_val >= 0 the bound does not grow with n, does not shrink with
\* range_val, and is strictly greater than 0.
C13_HoeffdingMonotonePositive ==
    last.op = "hoeffding_bound" =>
        LET call == last.result
        IN (ValidConfidence(call.confidence) /\ call.n > 0 /\ call.range_val >= 0) =>
               /\ call.out.raised = ""
               /\ HPositive(call.out)
               /\ \A n \in Samples : n > call.n =>
                      HLeq(HoeffdingBound(call.range_val, call.confidence, n), call.out)
               /\ \A range_val \in Ranges : range_val > call.range_val =>
                      HLeq(call.out, HoeffdingBound(range_val, call.confidence, call.n))

\* C13 amended: for the same inputs the bound is returned, is 0 when
\* range_val = 0 and strictly greater than 0 otherwise, strictly grows with
\* range_val, and strictly shrinks with n when range_val > 0 (it stays 0
\* when range_val = 0).
C13_HoeffdingMonotone ==
    last.op = "hoeffding_bound" =>
        LET call == last.result
        IN (ValidConfidence(call.confidence) /\ call.n > 0 /\ call.range_val >= 0) =>
               /\ call.out.raised = ""
               /\ HPositive(call.out) <=> call.range_val /= 0
               /\ \A n \in Samples : n > call.n =>
                      LET smaller == HoeffdingBound(call.range_val, call.confidence, n)
                      IN /\ smaller.raised = ""
                         /\ IF call.range_val = 0 THEN smaller = call.out
                                                  ELSE HLess(smaller, call.out)
               /\ \A range_val \in Ranges : range_val > call.range_val =>
                      LET larger == HoeffdingBound(range_val, call.confidence, call.n)
                      IN larger.raised = "" /\ HLess(call.out, larger)

C13_Witness ==
    /\ last.op = "hoeffding_bound"
    /\ last.result.range_val = 1
    /\ last.result.n = 2
    /\ last.result.confidence = <<1, 4>>
    /\ last.result.out = Returns(<<1, 4>>, <<4, 1>>)

\* C14: no operation raises; in particular _estimate_model_size completes
\* without an error from every reachable state, the tree with an absent
\* root (estimated size 0) included.
C14_NoOperationRaises == ~last.raised

\* the largest depth of a leaf reachable from the root
MaxLeafDepth(s) ==
    CHOOSE d \in {Len(p) : p \in Leaves(s)} : \A p \in Leaves(s) : Len(p) <= d

\* C15: reading model_measurements (and through it depth) changes nothing
\* of the object; the snapshot reports n_decision_nodes + n_active_leaves +
\* n_inactive_leaves nodes, n_active_leaves + n_inactive_leaves leaves,
\* n_active_leaves active leaves, and depth 0 when the root is absent,
\* otherwise the depth of the deepest leaf under the root.
C15_MeasurementsReadOnly ==
    /\ [](last.op = "model_measurements" =>
            /\ last.result.tree_size_nodes =
                   self.n_decision_nodes + self.n_active_leaves + self.n_inactive_leaves
            /\ last.result.tree_size_leaves =
                   self.n_active_leaves + self.n_inactive_leaves
            /\ last.result.active_learning_nodes = self.n_active_leaves
            /\ last.result.tree_depth =
                   IF self.tree_root = <<>> THEN 0 ELSE MaxLeafDepth(self)
            /\ last.result.tree_depth = Depth(self))
    /\ [][last'.op = "model_measurements" => self' = self]_vars

C15_Witness ==
    /\ last.op = "model_measurements"
    /\ last.result.tree_depth = 2
    /\ last.result.tree_size_nodes = 5
    /\ last.result.active_learning_nodes = 1

\* sum of the measured sizes of the leaves in the slots `slots`
RECURSIVE MeasuredSize(_, _)
MeasuredSize(size_of, slots) ==
    IF slots = {} THEN 0
    ELSE LET p == CHOOSE q \in slots : TRUE
         IN size_of[p] + MeasuredSize(size_of, slots \ {p})

\* what C16 says of one call of _estimate_model_size from the object s
EstimateAsSpecified(s, size_of, actual_model_size) ==
    LET out == EstimateModelSize(s, size_of, actual_model_size)
    IN /\ out.enforced <=> actual_model_size > s.max_byte_size
       /\ actual_model_size <= s.max_byte_size =>
              /\ out.self.tree_root = s.tree_root
              /\ out.self.n_active_leaves = s.n_active_leaves
              /\ out.self.n_inactive_leaves = s.n_inactive_leaves
              /\ out.self.growth_allowed = s.growth_allowed
       /\ out.self.active_leaf_size_estimate =
              IF ActiveLeaves(s) = {} THEN s.active_leaf_size_estimate
              ELSE Norm(MeasuredSize(size_of, ActiveLeaves(s)), s.n_active_leaves)
       /\ out.self.inactive_leaf_size_estimate =
              IF InactiveLeaves(s) = {} THEN s.inactive_leaf_size_estimate
              ELSE Norm(MeasuredSize(size_of, InactiveLeaves(s)), s.n_inactive_leaves)

\* C16: _estimate_model_size calls _enforce_size_limit exactly when the
\* measured size of the model is strictly greater than _max_byte_size; at
\* or below the budget no leaf changes mode and _growth_allowed keeps its
\* value; a leaf class without leaves keeps its previous size estimate and
\* a class with leaves gets the sum of its measured sizes divided by its
\* leaf counter.
C16_EnforceIffOverBudget ==
    \A size_of \in Measurements(self), actual_model_size \in 1..MaxModelSize :
        EstimateAsSpecified(self, size_of, actual_model_size)

\* the projected size of s with k of its leaves active fits the budget
Fits(s, k) ==
    ~FGt(Projected(s, s.n_active_leaves + s.n_inactive_leaves, k),
         FInt(s.max_byte_size))

\* C17 as stated: the max_active a ranking pass computes is the maximum k
\* in 0..L whose projected size (k x A + (L - k) x I) x overhead fits the
\* budget, whatever the estimates (0 when no count fits).
C17_MaxActiveIsMaximum ==
    ~StopsGrowth(self) =>
        LET L == self.n_active_leaves + self.n_inactive_leaves
            max_active == Ranking(self).max_active
        IN /\ max_active \in 0..L
           /\ max_active > 0 => Fits(self, max_active)
           /\ \A k \in 1..L : Fits(self, k) => k <= max_active

\* C17 amended: max_active is the largest k in 0..L such that every count
\* 1..k fits the budget (the scan stops at the first count that does not
\* fit); it is the maximum fitting k when the inactive estimate is not
\* larger than the active estimate.
C17_MaxActiveIsFirstFailure ==
    ~StopsGrowth(self) =>
        LET L == self.n_active_leaves + self.n_inactive_leaves
            max_active == Ranking(self).max_active
        IN /\ max_active \in 0..L
           /\ \A k \in 1..max_active : Fits(self, k)
           /\ max_active < L => ~Fits(self, max_active + 1)
           /\ ~FGt(self.inactive_leaf_size_estimate, self.active_leaf_size_estimate)
                  => \A k \in 1..L : Fits(self, k) => k <= max_active

\* a pass that stopped at the first count although a larger count fits
C17_Witness ==
    /\ last.op = "enforce_size_limit"
    /\ last.ranked
    /\ last.max_active = 0
    /\ FGt(self.inactive_leaf_size_estimate, self.active_leaf_size_estimate)
    /\ Fits(self, self.n_active_leaves + self.n_inactive_leaves)
    /\ self.n_inactive_leaves = 3

\* C18: over every step (_enforce_size_limit, _estimate_model_size,
\* _deactivate_all_leaves, _activate_leaf, _deactivate_leaf and the reads)
\* every slot that holds a SplitNode holds the same SplitNode afterwards,
\* and _n_decision_nodes keeps its value; so both hold forever.
C18_SplitNodesStay ==
    [][/\ \A p \in Splits(self) :
              /\ p \in DOMAIN self'.tree_root
              /\ self'.tree_root[p] = self.tree_root[p]
       /\ Splits(self') = Splits(self)
       /\ self'.n_decision_nodes = self.n_decision_nodes]_vars

C18_Witness ==
    /\ last.op = "estimate_model_size"
    /\ last.ranked
    /\ Splits(self) = {<<>>, <<0>>}
    /\ self.n_decision_nodes = 2
    /\ self.n_active_leaves < last.active_before

\* the slots of s whose leaf has kind `from` and has kind `to` in t
Moved(s, t, from, to) ==
    {p \in Leaves(s) : s.tree_root[p].kind = from /\ t.tree_root[p].kind = to}

\* from s to t only leaves changed, each into a leaf of the other mode with
\* the same statistics in the same slot; the leaf counters follow; nothing
\* else of the object changed
OnlyLeafModesChanged(s, t) ==
    /\ DOMAIN t.tree_root = DOMAIN s.tree_root
    /\ \A p \in DOMAIN s.tree_root :
           t.tree_root[p] /= s.tree_root[p] =>
               /\ IsLearningNode(s.tree_root[p])
               /\ IsLearningNode(t.tree_root[p])
               /\ t.tree_root[p].kind /= s.tree_root[p].kind
               /\ t.tree_root[p].stats = s.tree_root[p].stats
    /\ t.n_active_leaves = s.n_active_leaves
           - Cardinality(Moved(s, t, "active", "inactive"))
           + Cardinality(Moved(s, t, "inactive", "active"))
    /\ t.n_inactive_leaves = s.n_inactive_leaves
           + Cardinality(Moved(s, t, "active", "inactive"))
           - Cardinality(Moved(s, t, "inactive", "active"))
    /\ t.n_decision_nodes = s.n_decision_nodes
    /\ t.active_leaf_size_estimate = s.active_leaf_size_estimate
    /\ t.inactive_leaf_size_estimate = s.inactive_leaf_size_estimate
    /\ t.size_estimate_overhead_fraction = s.size_estimate_overhead_fraction
    /\ t.growth_allowed = s.growth_allowed

\* C19: a call of _deactivate_leaf (_activate_leaf) changes exactly one
\* slot, the slot `parent_branch` of `parent` or the root when parent is
\* None, which held an active (inactive) leaf and then holds an inactive
\* (active) leaf with the same statistics; every other slot,
\* _n_decision_nodes, the size estimates and _growth_allowed keep their
\* values and the two leaf counters move by one in opposite directions.
\* The transitions one enforcement pass issues change only such slots, the
\* counters moving by one for each.
C19_LeafTransitionFrame ==
    [][/\ last'.op = "deactivate_leaf" =>
              /\ OnlyLeafModesChanged(self, self')
              /\ Cardinality(Moved(self, self', "active", "inactive")) = 1
              /\ Moved(self, self', "inactive", "active") = {}
              /\ self'.n_active_leaves = self.n_active_leaves - 1
              /\ self'.n_inactive_leaves = self.n_inactive_leaves + 1
       /\ last'.op = "activate_leaf" =>
              /\ OnlyLeafModesChanged(self, self')
              /\ Cardinality(Moved(self, self', "inactive", "active")) = 1
              /\ Moved(self, self', "active", "inactive") = {}
              /\ self'.n_active_leaves = self.n_active_leaves + 1
              /\ self'.n_inactive_leaves = self.n_inactive_leaves - 1
       /\ (last'.op = "enforce_size_limit" /\ last'.ranked) =>
              OnlyLeafModesChanged(self, self')]_vars

C19_Witness ==
    /\ last.op = "deactivate_leaf"
    /\ last.active_before = 2
    /\ self.n_active_leaves = 1
    /\ self.n_inactive_leaves = 2
    /\ IsInactiveLeaf(self.tree_root[<<1, 0>>])
    /\ self.tree_root[<<1, 0>>].stats = 1

\* C20: when no inactive leaf exists, the inactive estimate is not larger
\* than the active estimate, and n_active_leaves x active estimate x
\* overhead fits the budget, _enforce_size_limit changes nothing, whatever
\* stop_mem_management is.
C20_EnforceWithinBudgetIsNoOp ==
    (/\ InactiveLeaves(self) = {}
     /\ ~FGt(self.inactive_leaf_size_estimate, self.active_leaf_size_estimate)
     /\ ~FGt(FMul(FMul(FInt(self.n_active_leaves), self.active_leaf_size_estimate),
                  self.size_estimate_overhead_fraction),
             FInt(self.max_byte_size)))
    => \A stop \in BOOLEAN :
           LET s == [self EXCEPT !.stop_mem_management = stop]
           IN EnforceSizeLimit(s) = s

C20_Witness ==
    /\ last.op = "enforce_size_limit"
    /\ last.ranked
    /\ last.max_active = 3
    /\ self.stop_mem_management
    /\ self.n_active_leaves = 3
    /\ InactiveLeaves(self) = {}
    /\ self.growth_allowed
    /\ FGt(self.inactive_leaf_size_estimate, FInt(0))
    /\ self.inactive_leaf_size_estimate = self.active_leaf_size_estimate
    /\ FGt(FInt(1), self.size_estimate_overhead_fraction)

====
